---- MODULE Spec2Model ----
(***************************************************************************)
(* Model of l-smith/microwave: the material library (materials.py) and the *)
(* three waveguide classes COAX, TWWG and PPWG (wg.py).                    *)
(*                                                                         *)
(* Python floats are modelled as decimal floating point numbers            *)
(* m * 10^e with a four digit mantissa (1000 <= |m| <= 9999, or m = 0),    *)
(* numpy's nan as the value NaN and Python's None as the value None.       *)
(* Signs, zeros, domain errors and nan propagation are those of the        *)
(* Python operations; magnitudes are rounded to four digits.               *)
(***************************************************************************)
EXTENDS Integers, Sequences, FiniteSets, TLC

VARIABLES wg, last, printed

vars == <<wg, last, printed>>

(***************************************************************************)
(* float                                                                   *)
(***************************************************************************)
Abs(n) == IF n < 0 THEN -n ELSE n

Sgn(n) == IF n < 0 THEN -1 ELSE IF n = 0 THEN 0 ELSE 1

RECURSIVE Norm(_, _)
Norm(m, e) ==
    IF m = 0 THEN [k |-> "num", m |-> 0, e |-> 0]
    ELSE IF Abs(m) >= 10000 THEN Norm(Sgn(m) * (Abs(m) \div 10), e + 1)
    ELSE IF Abs(m) < 1000 THEN Norm(m * 10, e - 1)
    ELSE [k |-> "num", m |-> m, e |-> e]

\* the float literal m * 10^e
F(m, e) == Norm(m, e)

NaN == [k |-> "nan", m |-> 0, e |-> 0]

None == [k |-> "None", m |-> 0, e |-> 0]

IsNum(x) == x.k = "num"

RECURSIVE Pow10(_)
Pow10(n) == IF n = 0 THEN 1 ELSE 10 * Pow10(n - 1)

Neg(x) == IF ~IsNum(x) THEN NaN ELSE [k |-> "num", m |-> -x.m, e |-> x.e]

Mul(x, y) ==
    IF ~IsNum(x) \/ ~IsNum(y) THEN NaN ELSE Norm(x.m * y.m, x.e + y.e)

\* x / y for y # 0 (the callers raise ZeroDivisionError before dividing by 0)
Div(x, y) ==
    IF ~IsNum(x) \/ ~IsNum(y) \/ y.m = 0 THEN NaN
    ELSE Norm(Sgn(x.m) * Sgn(y.m) * ((Abs(x.m) * 10000) \div Abs(y.m)),
              x.e - y.e - 4)

Add(x, y) ==
    IF ~IsNum(x) \/ ~IsNum(y) THEN NaN
    ELSE IF x.m = 0 THEN y
    ELSE IF y.m = 0 THEN x
    ELSE LET hi == IF x.e >= y.e THEN x ELSE y
             lo == IF x.e >= y.e THEN y ELSE x
             d  == hi.e - lo.e
         IN  IF d > 4 THEN hi ELSE Norm(hi.m * Pow10(d) + lo.m, lo.e)

Sub(x, y) == Add(x, Neg(y))

RECURSIVE ISqrtBetween(_, _, _)
\* the largest r in lo..hi with r * r <= n, given lo * lo <= n
ISqrtBetween(n, lo, hi) ==
    IF lo >= hi THEN lo
    ELSE LET mid == (lo + hi + 1) \div 2
         IN  IF mid * mid <= n THEN ISqrtBetween(n, mid, hi)
             ELSE ISqrtBetween(n, lo, mid - 1)

\* np.sqrt on a real: nan for a negative argument
Sqrt(x) ==
    IF ~IsNum(x) \/ x.m < 0 THEN NaN
    ELSE IF x.m = 0 THEN x
    ELSE LET odd == (x.e % 2) # 0
             m2  == IF odd THEN x.m * 10 ELSE x.m
             e2  == IF odd THEN x.e - 1 ELSE x.e
         IN  Norm(ISqrtBetween(m2 * 10000, 0, 46340), (e2 - 4) \div 2)

RECURSIVE AtanhSeries(_, _, _)
\* pow/n + pow*y2/(n+2) + ... in units of 10^-4, up to the term n = 25
AtanhSeries(pow, y2, n) ==
    IF n > 25 \/ pow = 0 THEN 0
    ELSE (pow \div n) + AtanhSeries((pow * y2) \div 10000, y2, n + 2)

\* math.log(x) for x > 0: ln(m/1000) = 2 atanh((m-1000)/(m+1000)), plus (e+3) ln 10
Ln(x) ==
    LET y == ((x.m - 1000) * 10000) \div (x.m + 1000)
    IN  Norm(2 * AtanhSeries(y, (y * y) \div 10000, 1) + (x.e + 3) * 23026, -4)

\* math.acosh(x) for x >= 1
Acosh(x) == Ln(Add(x, Sqrt(Sub(Mul(x, x), F(1, 0)))))

Pi == F(3142, -3)

Two == F(2, 0)

One == F(1, 0)

(***************************************************************************)
(* complex                                                                 *)
(***************************************************************************)
Cx(re, im) == [re |-> re, im |-> im]

\* 1j * x
J(x) == Cx(Mul(F(0, 0), x), x)

\* z * x for a complex z and a real x
CScale(z, x) == Cx(Mul(z.re, x), Mul(z.im, x))

\* x + z for a real x and a complex z
RAddC(x, z) == Cx(Add(x, z.re), z.im)

CMul(z1, z2) ==
    Cx(Sub(Mul(z1.re, z2.re), Mul(z1.im, z2.im)),
       Add(Mul(z1.re, z2.im), Mul(z1.im, z2.re)))

\* numpy's complex division: 0/0 is nan+nanj (no exception)
CDiv(z1, z2) ==
    LET den == Add(Mul(z2.re, z2.re), Mul(z2.im, z2.im))
    IN  IF ~IsNum(den) \/ den.m = 0 THEN Cx(NaN, NaN)
        ELSE Cx(Div(Add(Mul(z1.re, z2.re), Mul(z1.im, z2.im)), den),
                Div(Sub(Mul(z1.im, z2.re), Mul(z1.re, z2.im)), den))

\* np.sqrt on a complex: the principal square root
CSqrt(z) ==
    IF ~IsNum(z.re) \/ ~IsNum(z.im) THEN Cx(NaN, NaN)
    ELSE IF z.re.m = 0 /\ z.im.m = 0 THEN z
    ELSE LET r == Sqrt(Add(Mul(z.re, z.re), Mul(z.im, z.im)))
             t == Sqrt(Div(Add(r, [z.re EXCEPT !.m = Abs(z.re.m)]), Two))
             u == Div(z.im, Mul(Two, t))
         IN  IF z.re.m >= 0 THEN Cx(t, u)
             ELSE Cx([u EXCEPT !.m = Abs(u.m)],
                     IF z.im.m < 0 THEN Neg(t) ELSE t)

(***************************************************************************)
(* materials.py                                                            *)
(***************************************************************************)
UpperChars == "ABCDEFGHIJKLMNOPQRSTUVWXYZ"

LowerChars == "abcdefghijklmnopqrstuvwxyz"

LowerChar(c) ==
    IF \E i \in 1..Len(UpperChars) : SubSeq(UpperChars, i, i) = c
    THEN LET i == CHOOSE j \in 1..Len(UpperChars) : SubSeq(UpperChars, j, j) = c
         IN  SubSeq(LowerChars, i, i)
    ELSE c

\* the comparison made on the name as given
lower_forgotten(s) == s

RECURSIVE lower(_)
\* str.lower()
lower(s) ==
    IF Len(s) = 0 THEN ""
    ELSE LowerChar(SubSeq(s, 1, 1)) \o lower(SubSeq(s, 2, Len(s)))

\* a normal return
Return(v) == [ret |-> v, printed |-> <<>>]

\* the else branch: print the message, fall off the end (return None)
PrintUnsupported(material, fn) ==
    [ret |-> None,
     printed |-> << [error |-> "is currently not supported in function",
                     material |-> material, fn |-> fn] >>]

cond(material) ==
    LET l == lower(material)
    IN  IF l = "cu" \/ l = "copper" THEN Return(F(5813, 4))
        ELSE IF l = "pec" \/ l = "perfect_electric_conductor" THEN Return(F(1, 30))
        ELSE IF l = "au" \/ l = "gold" THEN Return(F(4098, 4))
        ELSE IF l = "al" \/ l = "aluminium" \/ l = "aluminum" THEN Return(F(3816, 4))
        ELSE IF l = "ag" \/ l = "silver" THEN Return(F(6173, 4))
        ELSE IF l = "brass" THEN Return(F(2564, 4))
        ELSE IF l = "bronze" THEN Return(F(100, 5))
        ELSE IF l = "chromium" \/ l = "cr" THEN Return(F(3846, 4))
        ELSE IF l = "water" \/ l = "h2o" THEN Return(F(2, -4))
        ELSE IF l = "germanium" \/ l = "ge" THEN Return(F(22, 5))
        ELSE IF l = "graphite" THEN Return(F(7, 4))
        ELSE IF l = "iron" \/ l = "fe" THEN Return(F(103, 5))
        ELSE IF l = "mercury" \/ l = "hg" THEN Return(F(104, 4))
        ELSE IF l = "lead" \/ l = "pb" THEN Return(F(456, 4))
        ELSE IF l = "nichrome" THEN Return(F(10, 5))
        ELSE IF l = "nickel" \/ l = "ni" THEN Return(F(1449, 4))
        ELSE IF l = "platinum" \/ l = "pt" THEN Return(F(952, 4))
        ELSE IF l = "seawater" THEN Return(F(4, 0))
        ELSE IF l = "silicon" \/ l = "si" THEN Return(F(44, -5))
        ELSE IF l = "steel_silicon" THEN Return(F(2, 6))
        ELSE IF l = "steel_stainless" THEN Return(F(11, 5))
        ELSE IF l = "solder" THEN Return(F(7, 6))
        ELSE IF l = "tungsten" \/ l = "w" THEN Return(F(1825, 4))
        ELSE IF l = "zinc" \/ l = "zn" THEN Return(F(167, 5))
        ELSE PrintUnsupported(material, "cond(material)")

\* scipy.constants.epsilon_0
eps_0 == F(8854, -15)

\* complex(er*eps_0, -er*eps_0*tand)
LossyDielectric(er, tand) ==
    Cx(Mul(er, eps_0), Mul(Mul(Neg(er), eps_0), tand))

dielec_const(material) ==
    LET l == lower(material)
    IN  IF l = "pe" \/ l = "polyethylene"
        THEN Return(LossyDielectric(F(225, -2), F(4, -4)))
        ELSE IF l = "vacuum" \/ l = "vac"
        THEN Return(Cx(Mul(F(1, 0), eps_0), F(0, 0)))
        ELSE IF l = "gaas" \/ l = "galliumarsenide"
        THEN Return(LossyDielectric(F(13, 0), F(6, -3)))
        ELSE IF l = "teflon" \/ l = "ptfe"
        THEN Return(LossyDielectric(F(208, -2), F(4, -4)))
        ELSE IF l = "silicon" \/ l = "si"
        THEN Return(LossyDielectric(F(119, -1), F(4, -3)))
        ELSE IF l = "polystyrene" \/ l = "ps"
        THEN Return(LossyDielectric(F(254, -2), F(33, -5)))
        ELSE PrintUnsupported(material, "dielec_const(material)")

(***************************************************************************)
(* numpy: a frequency is a scalar or a one-dimensional ndarray; every      *)
(* arithmetic operation and np.sqrt act element by element, a scalar       *)
(* operand being broadcast over the array.                                 *)
(***************************************************************************)
Scalar(x) == [arr |-> FALSE, v |-> <<x>>]

NdArray(xs) == [arr |-> TRUE, v |-> xs]

At(x, i) == IF x.arr THEN x.v[i] ELSE x.v[1]

\* the length of the result of an operation on x and y
Size(x, y) == IF x.arr THEN Len(x.v) ELSE Len(y.v)

NpMul(x, y) ==
    [arr |-> x.arr \/ y.arr, v |-> [i \in 1..Size(x, y) |-> Mul(At(x, i), At(y, i))]]

NpDiv(x, y) ==
    [arr |-> x.arr \/ y.arr, v |-> [i \in 1..Size(x, y) |-> Div(At(x, i), At(y, i))]]

NpSqrt(x) == [arr |-> x.arr, v |-> [i \in 1..Len(x.v) |-> Sqrt(x.v[i])]]

NpJ(x) == [arr |-> x.arr, v |-> [i \in 1..Len(x.v) |-> J(x.v[i])]]

NpCScale(z, x) ==
    [arr |-> z.arr \/ x.arr, v |-> [i \in 1..Size(z, x) |-> CScale(At(z, i), At(x, i))]]

NpRAddC(x, z) ==
    [arr |-> x.arr \/ z.arr, v |-> [i \in 1..Size(x, z) |-> RAddC(At(x, i), At(z, i))]]

NpCMul(z1, z2) ==
    [arr |-> z1.arr \/ z2.arr, v |-> [i \in 1..Size(z1, z2) |-> CMul(At(z1, i), At(z2, i))]]

NpCDiv(z1, z2) ==
    [arr |-> z1.arr \/ z2.arr, v |-> [i \in 1..Size(z1, z2) |-> CDiv(At(z1, i), At(z2, i))]]

NpCSqrt(z) == [arr |-> z.arr, v |-> [i \in 1..Len(z.v) |-> CSqrt(z.v[i])]]

\* .real and .imag of a complex scalar or array
Real(z) == [arr |-> z.arr, v |-> [i \in 1..Len(z.v) |-> z.v[i].re]]

Imag(z) == [arr |-> z.arr, v |-> [i \in 1..Len(z.v) |-> z.v[i].im]]

(***************************************************************************)
(* wg.py                                                                   *)
(***************************************************************************)
\* scipy.constants.mu_0
mu_0 == F(1257, -9)

NoModel == [cls |-> "none"]

Raise(exc, out) == [exc |-> exc, self |-> NoModel, printed |-> out]

Constructed(self, out) == [exc |-> "none", self |-> self, printed |-> out]

COAX_init(a, b, metal, dielec) ==
    LET sigma == cond(metal)
        eps   == dielec_const(dielec)
        out   == sigma.printed \o eps.printed
        mu    == Mul(One, mu_0)
    IN  IF a.m = 0 THEN Raise("ZeroDivisionError", out)
        ELSE IF Div(b, a).m <= 0 THEN Raise("ValueError", out)
        ELSE LET lg == Ln(Div(b, a))
             IN  IF eps.ret = None THEN Raise("AttributeError", out)
                 ELSE IF lg.m = 0 THEN Raise("ZeroDivisionError", out)
                 ELSE Constructed(
                        [cls |-> "COAX", a |-> a, b |-> b,
                         sigma |-> sigma.ret, eps |-> eps.ret, mu |-> mu,
                         L |-> Div(Mul(mu, lg), Mul(Two, Pi)),
                         C |-> Div(Mul(Mul(Two, Pi), eps.ret.re), lg)], out)

TWWG_init(S, a, metal, dielec) ==
    LET sigma == cond(metal)
        eps   == dielec_const(dielec)
        out   == sigma.printed \o eps.printed
        mu    == Mul(One, mu_0)
    IN  IF Mul(Two, a).m = 0 THEN Raise("ZeroDivisionError", out)
        ELSE IF Sub(Div(S, Mul(Two, a)), One).m < 0 THEN Raise("ValueError", out)
        ELSE LET ac == Acosh(Div(S, Mul(Two, a)))
             IN  IF eps.ret = None THEN Raise("AttributeError", out)
                 ELSE IF ac.m = 0 THEN Raise("ZeroDivisionError", out)
                 ELSE Constructed(
                        [cls |-> "TWWG", S |-> S, a |-> a,
                         sigma |-> sigma.ret, eps |-> eps.ret, mu |-> mu,
                         L |-> Div(Mul(mu, ac), Pi),
                         C |-> Div(Mul(Pi, eps.ret.re), ac)], out)

PPWG_init(S, T, metal, dielec) ==
    LET sigma == cond(metal)
        eps   == dielec_const(dielec)
        out   == sigma.printed \o eps.printed
        mu    == Mul(One, mu_0)
    IN  IF T.m = 0 THEN Raise("ZeroDivisionError", out)
        ELSE IF eps.ret = None THEN Raise("AttributeError", out)
        ELSE IF S.m = 0 THEN Raise("ZeroDivisionError", out)
        ELSE Constructed(
               [cls |-> "PPWG", S |-> S, T |-> T,
                sigma |-> sigma.ret, eps |-> eps.ret, mu |-> mu,
                L |-> Div(Mul(mu, S), T),
                C |-> Div(Mul(eps.ret.re, T), S)], out)

(* A method is a function of (self, freq) to the object as the method      *)
(* leaves it, the exception or the value returned, and the locals.         *)
Unbound == [arr |-> FALSE, v |-> <<>>]

TypeError(self, w) ==
    [self |-> self, exc |-> "TypeError", ret |-> Unbound,
     w |-> w, Rs |-> Unbound, R |-> Unbound, G |-> Unbound]

Returned(self, ret, w, Rs, R, G) ==
    [self |-> self, exc |-> "none", ret |-> ret,
     w |-> w, Rs |-> Rs, R |-> R, G |-> G]

\* np.sqrt((R+1j*w*L)/(G+1j*w*C))
Z0Of(self, w, R, G) ==
    NpCSqrt(
        NpCDiv(
            NpRAddC(R, NpCScale(NpJ(w), Scalar(self.L))),
            NpRAddC(G, NpCScale(NpJ(w), Scalar(self.C)))))

\* np.sqrt((R+1j*w*L)*(G+1j*w*C))
GammaOf(self, w, R, G) ==
    NpCSqrt(
        NpCMul(
            NpRAddC(R, NpCScale(NpJ(w), Scalar(self.L))),
            NpRAddC(G, NpCScale(NpJ(w), Scalar(self.C)))))

\* the end of get_z0: 2*self.sigma raises TypeError when sigma is None (the
\* statement after w is bound); otherwise z0 is computed and returned
ReturnZ0(self, w, Rs, R, G) ==
    IF self.sigma = None THEN TypeError(self, w)
    ELSE Returned(self, Z0Of(self, w, R, G), w, Rs, R, G)

\* the end of get_gamma, likewise
ReturnGamma(self, w, Rs, R, G) ==
    IF self.sigma = None THEN TypeError(self, w)
    ELSE Returned(self, GammaOf(self, w, R, G), w, Rs, R, G)

\* Rs taken at the first frequency of the sweep for every element
SurfaceResistance_first(self, w) ==
    [arr |-> w.arr,
     v |-> [i \in 1..Len(w.v) |->
              Sqrt(Div(Mul(w.v[1], self.mu), Mul(Two, self.sigma)))]]

\* Rs = np.sqrt(w*self.mu/(2*self.sigma))
SurfaceResistance(self, w) ==
    NpSqrt(
        NpDiv(NpMul(w, Scalar(self.mu)),
                   Scalar(Mul(Two, self.sigma))))

COAX_get_z0(self, freq) ==
    LET w  == NpMul(Scalar(Mul(Two, Pi)), freq)
        Rs == SurfaceResistance(self, w)
        R  == NpDiv(
                NpMul(Rs,
                    Scalar(Add(Div(One, self.a), Div(One, self.b)))),
                Scalar(Mul(Two, Pi)))
        G  == NpDiv(
                NpMul(NpMul(Scalar(Mul(Two, Pi)), w),
                           Scalar(self.eps.im)),
                Scalar(Ln(Div(self.b, self.a))))
    IN  ReturnZ0(self, w, Rs, R, G)

COAX_get_gamma(self, freq) ==
    LET w  == NpMul(Scalar(Mul(Two, Pi)), freq)
        Rs == SurfaceResistance(self, w)
        R  == NpDiv(
                NpMul(Rs,
                    Scalar(Add(Div(One, self.a), Div(One, self.b)))),
                Scalar(Mul(Two, Pi)))
        G  == NpDiv(
                NpMul(NpMul(Scalar(Mul(Two, Pi)), w),
                           Scalar(self.eps.im)),
                Scalar(Ln(Div(self.b, self.a))))
    IN  ReturnGamma(self, w, Rs, R, G)

TWWG_get_z0(self, freq) ==
    LET w  == NpMul(Scalar(Mul(Two, Pi)), freq)
        Rs == SurfaceResistance(self, w)
        R  == NpDiv(Rs, Scalar(Mul(Pi, self.a)))
        G  == NpDiv(
                NpMul(NpMul(Scalar(Pi), w),
                           Scalar(self.eps.im)),
                Scalar(Acosh(Div(self.S, Mul(Two, self.a)))))
    IN  ReturnZ0(self, w, Rs, R, G)

\* G with the coaxial line's factor 2*pi
TWWG_get_gamma_coax_G(self, freq) ==
    LET w  == NpMul(Scalar(Mul(Two, Pi)), freq)
        Rs == SurfaceResistance(self, w)
        R  == NpDiv(Rs, Scalar(Mul(Pi, self.a)))
        G  == NpDiv(
                NpMul(NpMul(Scalar(Mul(Two, Pi)), w),
                           Scalar(self.eps.im)),
                Scalar(Acosh(Div(self.S, Mul(Two, self.a)))))
    IN  ReturnGamma(self, w, Rs, R, G)

TWWG_get_gamma(self, freq) ==
    LET w  == NpMul(Scalar(Mul(Two, Pi)), freq)
        Rs == SurfaceResistance(self, w)
        R  == NpDiv(Rs, Scalar(Mul(Pi, self.a)))
        G  == NpDiv(
                NpMul(NpMul(Scalar(Pi), w),
                           Scalar(self.eps.im)),
                Scalar(Acosh(Div(self.S, Mul(Two, self.a)))))
    IN  ReturnGamma(self, w, Rs, R, G)

PPWG_get_z0(self, freq) ==
    LET w  == NpMul(Scalar(Mul(Two, Pi)), freq)
        Rs == SurfaceResistance(self, w)
        R  == NpDiv(NpMul(Scalar(Two), Rs), Scalar(self.T))
        G  == NpDiv(
                NpMul(NpMul(w, Scalar(self.eps.im)),
                           Scalar(self.T)),
                Scalar(self.S))
    IN  ReturnZ0(self, w, Rs, R, G)

PPWG_get_gamma(self, freq) ==
    LET w  == NpMul(Scalar(Mul(Two, Pi)), freq)
        Rs == SurfaceResistance(self, w)
        R  == NpDiv(NpMul(Scalar(Two), Rs), Scalar(self.T))
        G  == NpDiv(
                NpMul(NpMul(w, Scalar(self.eps.im)),
                           Scalar(self.T)),
                Scalar(self.S))
    IN  ReturnGamma(self, w, Rs, R, G)

\* the method the object's class gives the name
get_z0(self, freq) ==
    IF self.cls = "COAX" THEN COAX_get_z0(self, freq)
    ELSE IF self.cls = "TWWG" THEN TWWG_get_z0(self, freq)
    ELSE PPWG_get_z0(self, freq)

\* get_gamma as it would be if the method rescaled self.mu while computing
get_gamma_stores(self, freq) ==
    LET r == IF self.cls = "COAX" THEN COAX_get_gamma(self, freq)
             ELSE IF self.cls = "TWWG" THEN TWWG_get_gamma(self, freq)
             ELSE PPWG_get_gamma(self, freq)
    IN  [r EXCEPT !.self = [self EXCEPT !.mu = Mul(Two, self.mu)]]

get_gamma(self, freq) ==
    IF self.cls = "COAX" THEN COAX_get_gamma(self, freq)
    ELSE IF self.cls = "TWWG" THEN TWWG_get_gamma(self, freq)
    ELSE PPWG_get_gamma(self, freq)

\* .real of what get_gamma returned, or its exception passed on
RealOf(gamma) ==
    [self |-> gamma.self, exc |-> gamma.exc,
     ret |-> IF gamma.exc = "none" THEN Real(gamma.ret) ELSE Unbound]

\* .imag of what get_gamma returned, or its exception passed on
ImagOf(gamma) ==
    [self |-> gamma.self, exc |-> gamma.exc,
     ret |-> IF gamma.exc = "none" THEN Imag(gamma.ret) ELSE Unbound]

\* return self.get_gamma(freq).real
get_alpha(self, freq) == RealOf(get_gamma(self, freq))

\* return self.get_gamma(freq).real, as get_alpha does
get_beta_real(self, freq) == RealOf(get_gamma(self, freq))

\* return self.get_gamma(freq).imag
get_beta(self, freq) == ImagOf(get_gamma(self, freq))

(***************************************************************************)
(* The caller: a script holding at most one waveguide object in wg.  last  *)
(* is the call that has just returned or raised (Idle between statements), *)
(* printed what that call wrote to standard output.                        *)
(***************************************************************************)
MaxN == 2

\* frequencies in Hz
Freqs == {F(0, 0), F(1, 11), F(3, 12)}

\* lengths in m
Dims == {F(-4, -3), F(-1, -3), F(0, 0), F(1, -3), F(2, -3), F(4, -3)}

\* plate separations and thicknesses in m
PlateDims == {F(-1, -3), F(0, 0), F(1, -3), F(3, -3)}

Metals == {"Cu", "unobtainium"}

Dielectrics == {"vac", "PE", "GaAs", "teflon", "Si", "ps", "unobtainium"}

RECURSIVE SeqsUpTo(_, _)
SeqsUpTo(S, n) ==
    IF n = 0 THEN {<<>>}
    ELSE LET shorter == SeqsUpTo(S, n - 1)
         IN  shorter \cup {Append(s, x) : s \in shorter, x \in S}

FreqInputs ==
    {Scalar(f) : f \in Freqs} \cup {NdArray(fs) : fs \in SeqsUpTo(Freqs, MaxN)}

CondNames ==
    {"cu", "copper", "pec", "perfect_electric_conductor", "au", "gold", "al",
     "aluminium", "aluminum", "ag", "silver", "brass", "bronze", "chromium",
     "cr", "water", "h2o", "germanium", "ge", "graphite", "iron", "fe",
     "mercury", "hg", "lead", "pb", "nichrome", "nickel", "ni", "platinum",
     "pt", "seawater", "silicon", "si", "steel_silicon", "steel_stainless",
     "solder", "tungsten", "w", "zinc", "zn"}

DielecNames ==
    {"pe", "polyethylene", "vacuum", "vac", "gaas", "galliumarsenide",
     "teflon", "ptfe", "silicon", "si", "polystyrene", "ps"}

UpperChar(c) ==
    IF \E i \in 1..Len(LowerChars) : SubSeq(LowerChars, i, i) = c
    THEN LET i == CHOOSE j \in 1..Len(LowerChars) : SubSeq(LowerChars, j, j) = c
         IN  SubSeq(UpperChars, i, i)
    ELSE c

RECURSIVE upper(_)
upper(s) ==
    IF Len(s) = 0 THEN ""
    ELSE UpperChar(SubSeq(s, 1, 1)) \o upper(SubSeq(s, 2, Len(s)))

capitalize(s) ==
    IF Len(s) = 0 THEN "" ELSE UpperChar(SubSeq(s, 1, 1)) \o SubSeq(s, 2, Len(s))

\* lower case but for the last letter
lastUpper(s) ==
    IF Len(s) = 0 THEN ""
    ELSE SubSeq(s, 1, Len(s) - 1) \o UpperChar(SubSeq(s, Len(s), Len(s)))

UnknownNames == {"unobtainium", "", "cu ", "c u", "copper1", "kryptonite"}

InputNames ==
    LET base == CondNames \cup DielecNames \cup UnknownNames
    IN  base \cup {upper(n) : n \in base} \cup {capitalize(n) : n \in base}
             \cup {lastUpper(n) : n \in base}

Idle == [op |-> "idle"]

Init ==
    /\ wg = NoModel
    /\ last = Idle
    /\ printed = <<>>

CallCond(material) ==
    /\ last = Idle
    /\ \E r \in {cond(material)} :
          /\ last' = [op |-> "cond", material |-> material, exc |-> "none",
                      ret |-> r.ret]
          /\ printed' = r.printed
    /\ UNCHANGED wg

CallDielecConst(material) ==
    /\ last = Idle
    /\ \E r \in {dielec_const(material)} :
          /\ last' = [op |-> "dielec_const", material |-> material,
                      exc |-> "none", ret |-> r.ret]
          /\ printed' = r.printed
    /\ UNCHANGED wg

New(cls, x, y, metal, dielec) ==
    /\ last = Idle
    /\ wg = NoModel
    /\ \E r \in {IF cls = "COAX" THEN COAX_init(x, y, metal, dielec)
                 ELSE IF cls = "TWWG" THEN TWWG_init(x, y, metal, dielec)
                 ELSE PPWG_init(x, y, metal, dielec)} :
          /\ wg' = r.self
          /\ last' = [op |-> "new", cls |-> cls, x |-> x, y |-> y,
                      metal |-> metal, dielec |-> dielec, exc |-> r.exc]
          /\ printed' = r.printed

NewCOAX(a, b, metal, dielec) == New("COAX", a, b, metal, dielec)

NewTWWG(S, a, metal, dielec) == New("TWWG", S, a, metal, dielec)

NewPPWG(S, T, metal, dielec) == New("PPWG", S, T, metal, dielec)

CallGetZ0(freq) ==
    /\ last = Idle
    /\ wg # NoModel
    /\ \E r \in {get_z0(wg, freq)} :
          /\ wg' = r.self
          /\ last' = [op |-> "get_z0", freq |-> freq, exc |-> r.exc, ret |-> r.ret,
                      w |-> r.w, Rs |-> r.Rs, R |-> r.R, G |-> r.G]
    /\ printed' = <<>>

CallGetGamma(freq) ==
    /\ last = Idle
    /\ wg # NoModel
    /\ \E r \in {get_gamma(wg, freq)} :
          /\ wg' = r.self
          /\ last' = [op |-> "get_gamma", freq |-> freq, exc |-> r.exc, ret |-> r.ret,
                      w |-> r.w, Rs |-> r.Rs, R |-> r.R, G |-> r.G]
    /\ printed' = <<>>

CallGetAlpha(freq) ==
    /\ last = Idle
    /\ wg # NoModel
    /\ \E r \in {get_alpha(wg, freq)} :
          /\ wg' = r.self
          /\ last' = [op |-> "get_alpha", freq |-> freq, exc |-> r.exc, ret |-> r.ret]
    /\ printed' = <<>>

CallGetBeta(freq) ==
    /\ last = Idle
    /\ wg # NoModel
    /\ \E r \in {get_beta(wg, freq)} :
          /\ wg' = r.self
          /\ last' = [op |-> "get_beta", freq |-> freq, exc |-> r.exc, ret |-> r.ret]
    /\ printed' = <<>>

\* the caller goes on to its next statement
NextStatement ==
    /\ last # Idle
    /\ last' = Idle
    /\ printed' = <<>>
    /\ UNCHANGED wg

\* the caller drops the object
Release ==
    /\ last = Idle
    /\ wg # NoModel
    /\ wg' = NoModel
    /\ UNCHANGED <<last, printed>>

Next ==
    \/ \E a, b \in Dims, metal \in Metals, dielec \in Dielectrics :
          NewCOAX(a, b, metal, dielec)
    \/ \E S, a \in Dims, metal \in Metals, dielec \in Dielectrics :
          NewTWWG(S, a, metal, dielec)
    \/ \E S, T \in PlateDims, metal \in Metals, dielec \in Dielectrics :
          NewPPWG(S, T, metal, dielec)
    \/ \E freq \in FreqInputs : CallGetZ0(freq)
    \/ \E freq \in FreqInputs : CallGetGamma(freq)
    \/ \E freq \in FreqInputs : CallGetAlpha(freq)
    \/ \E freq \in FreqInputs : CallGetBeta(freq)
    \/ NextStatement
    \/ Release

Spec == Init /\ [][Next]_vars

NextMaterials ==
    \/ \E material \in InputNames : CallCond(material)
    \/ \E material \in InputNames : CallDielecConst(material)
    \/ NextStatement

SpecMaterials == Init /\ [][NextMaterials]_vars

(***************************************************************************)
(* Properties                                                              *)
(***************************************************************************)
Queries == {"get_z0", "get_gamma", "get_alpha", "get_beta"}

Positive(x) == IsNum(x) /\ x.m > 0

\* x <= y on numbers
Leq(x, y) == Sub(x, y).m <= 0

\* the geometry the closed forms are meant for
ValidGeometry(cls, x, y) ==
    /\ Positive(x)
    /\ Positive(y)
    /\ cls = "COAX" => ~Leq(y, x)
    /\ cls = "TWWG" => ~Leq(x, Mul(Two, y))

\* the geometry of an object
GeometryOf(self) ==
    IF self.cls = "COAX" THEN <<self.a, self.b>>
    ELSE IF self.cls = "TWWG" THEN <<self.S, self.a>>
    ELSE <<self.S, self.T>>

KnownMaterials(metal, dielec) ==
    /\ \E n \in CondNames : upper(n) = upper(metal)
    /\ \E n \in DielecNames : upper(n) = upper(dielec)

\* the names of the table a lookup searches
TableOf(op) == IF op = "cond" THEN CondNames ELSE DielecNames

Lookup(op, material) ==
    IF op = "cond" THEN cond(material) ELSE dielec_const(material)

\* the query named op, on a scalar or an array
Query(op, self, freq) ==
    IF op = "get_z0" THEN get_z0(self, freq)
    ELSE IF op = "get_gamma" THEN get_gamma(self, freq)
    ELSE IF op = "get_alpha" THEN get_alpha(self, freq)
    ELSE get_beta(self, freq)

\* C1: a lookup of a name that, lower-cased, is in neither the canonical
\* names nor the aliases of its table fails with UnknownMaterialError naming
\* the material and the function; it never returns normally.
C1_UnknownMaterialRaises ==
    (last.op \in {"cond", "dielec_const"}
        /\ \A n \in TableOf(last.op) : upper(n) # upper(last.material))
    => last.exc = "UnknownMaterialError"

\* C2: constructing any of the three models (of valid geometry, so that no
\* other error is due) with an unknown conductor or an unknown dielectric
\* fails with UnknownMaterialError at construction: no object is made, so
\* none with an unresolved sigma or eps is ever reachable.
C2_ConstructionRaisesUnknownMaterial ==
    /\ (last.op = "new"
          /\ ValidGeometry(last.cls, last.x, last.y)
          /\ ~KnownMaterials(last.metal, last.dielec))
       => (last.exc = "UnknownMaterialError" /\ wg = NoModel)
    /\ (wg # NoModel /\ ValidGeometry(wg.cls, GeometryOf(wg)[1], GeometryOf(wg)[2]))
       => (wg.sigma # None /\ wg.eps # None)

\* C3: constructing a two-wire model (of known materials) with S <= 2a fails
\* with InvalidGeometryError and makes no object; a two-wire model exists
\* only with S > 2a.
C3_TwoWireGeometryRaises ==
    /\ (last.op = "new" /\ last.cls = "TWWG"
          /\ KnownMaterials(last.metal, last.dielec)
          /\ Leq(last.x, Mul(Two, last.y)))
       => (last.exc = "InvalidGeometryError" /\ wg = NoModel)
    /\ (wg # NoModel /\ wg.cls = "TWWG") => ~Leq(wg.S, Mul(Two, wg.a))

\* C4: construction (with known materials) with a non-positive dimension, or
\* of a coaxial model with b <= a, fails with InvalidGeometryError; every
\* constructed model has L > 0 and C > 0.
C4_InvalidGeometryRaises ==
    /\ (last.op = "new"
          /\ KnownMaterials(last.metal, last.dielec)
          /\ (\/ ~Positive(last.x)
              \/ ~Positive(last.y)
              \/ (last.cls = "COAX" /\ Leq(last.y, last.x))))
       => (last.exc = "InvalidGeometryError" /\ wg = NoModel)
    /\ wg # NoModel => (Positive(wg.L) /\ Positive(wg.C))

\* C5: a model is immutable after construction: no step taken on an existing
\* object (any query, with any frequency, returning or raising) changes its
\* geometry, sigma, eps, mu, L or C.
C5_ModelImmutable ==
    [][(wg # NoModel /\ wg' # NoModel) => wg' = wg]_vars

C5_Witness ==
    /\ wg # NoModel
    /\ last.op = "get_gamma"
    /\ last.exc = "none"
    /\ last.freq.arr
    /\ Len(last.freq.v) = 2
    /\ last.ret.v[1] # last.ret.v[2]

\* C6: a query on a frequency array of length N that returns, returns an
\* array of length N whose element i is what the same query returns for the
\* scalar frequency freq[i]; it raises only if the scalar queries raise.
C6_ElementWise ==
    (last.op \in Queries /\ last.freq.arr)
    => IF last.exc = "none"
       THEN /\ last.ret.arr
            /\ Len(last.ret.v) = Len(last.freq.v)
            /\ \A i \in 1..Len(last.freq.v) :
                  LET one == Query(last.op, wg, Scalar(last.freq.v[i]))
                  IN  /\ one.exc = "none"
                      /\ ~one.ret.arr
                      /\ one.ret.v = <<last.ret.v[i]>>
       ELSE \A i \in 1..Len(last.freq.v) :
               Query(last.op, wg, Scalar(last.freq.v[i])).exc = last.exc

C6_Witness ==
    /\ last.op = "get_alpha"
    /\ last.exc = "none"
    /\ last.freq = NdArray(<<F(3, 12), F(1, 11)>>)
    /\ Len(last.ret.v) = 2
    /\ Positive(Sub(last.ret.v[1], last.ret.v[2]))

\* the names that differ from s in letter case only
SameButCase(s) == {n \in InputNames : upper(n) = upper(s)}

\* the names each table gives one material
CondAliases ==
    {{"cu", "copper"}, {"pec", "perfect_electric_conductor"}, {"au", "gold"},
     {"al", "aluminium", "aluminum"}, {"ag", "silver"}, {"chromium", "cr"},
     {"water", "h2o"}, {"germanium", "ge"}, {"iron", "fe"}, {"mercury", "hg"},
     {"lead", "pb"}, {"nickel", "ni"}, {"platinum", "pt"}, {"silicon", "si"},
     {"tungsten", "w"}, {"zinc", "zn"}}

DielecAliases ==
    {{"pe", "polyethylene"}, {"vacuum", "vac"}, {"gaas", "galliumarsenide"},
     {"teflon", "ptfe"}, {"silicon", "si"}, {"polystyrene", "ps"}}

AliasesOf(op) == IF op = "cond" THEN CondAliases ELSE DielecAliases

\* the names that must give what s gives: s in another case, and the other
\* names of its material in any case
SameMaterial(op, s) ==
    SameButCase(s) \cup
    UNION {UNION {SameButCase(n) : n \in g} :
             g \in {h \in AliasesOf(op) : \E n \in h : upper(n) = upper(s)}}

\* C7: each lookup gives the same outcome for a name in any letter case and
\* for the canonical name and the aliases of one material; 'Cu', 'cu' and
\* 'copper' give exactly 5.813e7.
C7_CaseInsensitiveAliasClosed ==
    last.op \in {"cond", "dielec_const"}
    => /\ \A n \in SameMaterial(last.op, last.material) :
             /\ Lookup(last.op, n).ret = last.ret
             /\ (Lookup(last.op, n).printed = <<>>) = (printed = <<>>)
       /\ (last.op = "cond" /\ last.material \in {"Cu", "cu", "copper"})
          => last.ret = F(5813, 4)

C7_Witness ==
    /\ last.op = "cond"
    /\ last.material = "Cu"
    /\ last.ret = F(5813, 4)
    /\ {"cu", "CU", "cU", "copper", "COPPER", "Copper"}
          \subseteq SameMaterial("cond", "Cu")

\* C8: attenuation is the real part and phase_constant the imaginary part of
\* what propagation_constant returns for the same model and frequency, so
\* propagation_constant = attenuation + j*phase_constant.
C8_AlphaBetaOfGamma ==
    (last.op \in {"get_gamma", "get_alpha", "get_beta"} /\ wg # NoModel)
    => LET gamma == get_gamma(wg, last.freq)
           alpha == get_alpha(wg, last.freq)
           beta  == get_beta(wg, last.freq)
       IN  /\ alpha.exc = gamma.exc
           /\ beta.exc = gamma.exc
           /\ last.exc = gamma.exc
           /\ gamma.exc = "none" =>
                /\ alpha.ret.arr = gamma.ret.arr
                /\ beta.ret.arr = gamma.ret.arr
                /\ Len(alpha.ret.v) = Len(gamma.ret.v)
                /\ Len(beta.ret.v) = Len(gamma.ret.v)
                /\ \A i \in 1..Len(gamma.ret.v) :
                      gamma.ret.v[i] = Cx(alpha.ret.v[i], beta.ret.v[i])
                /\ last.op = "get_alpha" => last.ret = alpha.ret
                /\ last.op = "get_beta" => last.ret = beta.ret
                /\ last.op = "get_gamma" => last.ret = gamma.ret

C8_Witness ==
    /\ last.op = "get_beta"
    /\ last.exc = "none"
    /\ ~last.freq.arr
    /\ Positive(last.ret.v[1])
    /\ get_gamma(wg, last.freq).ret.v[1].im = last.ret.v[1]
    /\ get_gamma(wg, last.freq).ret.v[1].re # last.ret.v[1]

\* C9: for a model of valid geometry and every frequency
\* f > 0, the shunt conductance G used by impedance and propagation_constant
\* is the geometric factor times omega times epsilon'' with epsilon'' >= 0:
\* G >= 0, G = 0 exactly for vacuum, G > 0 for a lossy dielectric.
C9_ShuntConductanceNonNegative ==
    (last.op \in {"get_z0", "get_gamma"} /\ last.exc = "none"
        /\ ValidGeometry(wg.cls, GeometryOf(wg)[1], GeometryOf(wg)[2]))
    => \A i \in 1..Len(last.freq.v) :
          Positive(last.freq.v[i])
          => /\ last.G.v[i].m >= 0
             /\ (last.G.v[i].m = 0) = (wg.eps.im.m = 0)

\* the pair (R + j*omega*L, G + j*omega*C) of a frame
SeriesOf(fr, self, i) == Cx(fr.R.v[i], Mul(fr.w.v[i], self.L))

ShuntOf(fr, self, i) == Cx(fr.G.v[i], Mul(fr.w.v[i], self.C))

\* C10: for every model and frequency, get_z0 and get_gamma compute the same
\* omega, Rs, R and G and use the same L and C: what they return are the
\* square roots of the quotient and of the product of one pair
\* (R + j*omega*L, G + j*omega*C).
C10_DuplicatedBodiesAgree ==
    (last.op \in {"get_z0", "get_gamma"} /\ wg # NoModel)
    => LET z == get_z0(wg, last.freq)
           g == get_gamma(wg, last.freq)
       IN  /\ last.exc = z.exc /\ last.exc = g.exc
           /\ last.w = z.w /\ last.w = g.w
           /\ last.Rs = z.Rs /\ last.Rs = g.Rs
           /\ last.R = z.R /\ last.R = g.R
           /\ last.G = z.G /\ last.G = g.G
           /\ z.self.L = g.self.L /\ z.self.C = g.self.C
           /\ last.exc = "none" =>
                \A i \in 1..Len(last.freq.v) :
                   /\ z.ret.v[i] = CSqrt(CDiv(SeriesOf(last, wg, i), ShuntOf(last, wg, i)))
                   /\ g.ret.v[i] = CSqrt(CMul(SeriesOf(last, wg, i), ShuntOf(last, wg, i)))
                   /\ last.ret.v[i] = (IF last.op = "get_z0" THEN z ELSE g).ret.v[i]

C10_Witness ==
    /\ last.op = "get_z0"
    /\ wg # NoModel
    /\ wg.cls = "TWWG"
    /\ last.exc = "none"
    /\ ~last.freq.arr
    /\ last.G.v[1].m # 0
    /\ last.ret.v[1] # get_gamma(wg, last.freq).ret.v[1]

====
